---------------------------- MODULE Spec2Model ----------------------------
(***************************************************************************)
(* Model of the Feishu upload tool (src/feishu_uploader.py and the GUI     *)
(* front end src/feishu_uploader_gui.py).                                  *)
(*                                                                         *)
(* One process run is modelled: the front end constructs a FeishuUploader, *)
(* calls upload_all or upload_all_concurrent and then reads or rewrites    *)
(* the failure manifest.  The persisted history file, the persisted        *)
(* manifest, the local tree and the remote store outlive the process; a    *)
(* further run starts from what the previous one left.                     *)
(*                                                                         *)
(* Paths are held as sequences of their segments: the string               *)
(* "A/00_Publish/x.docx" is <<"A", "00_Publish", "x.docx">>.  File and     *)
(* directory names hold no "/", so joining with "/" and split("/") are     *)
(* Append/concatenation and the segment sequence itself.                   *)
(***************************************************************************)
EXTENDS Integers, Sequences, FiniteSets, TLC

(* ------------------------------ bounds -------------------------------- *)

\* Files in the local tree.
MaxFiles == 2
\* Remote calls and file reads that fail in one run.
MaxFaults == 1
\* Distinct file contents.
NumContents == 2
\* Edits of local files by the user while the tool is in use.
MaxEdits == 1
\* Process runs in one behaviour of SpecRerun.
MaxRuns == 2
\* The clock stops here.
MaxTime == 1
\* Remote folders of one name under one parent.
MaxDup == 2
\* Files of the one publish folder of SpecPool: one more than max_workers
\* and than the rate limiter's max_calls.
MaxCallers == 6

(* --------------------------- program constants ------------------------ *)

\* max_workers of upload_all_concurrent.
max_workers == 5

\* Python's None, where a digest or a token may stand.
None == <<"None">>

\* failed_uploads.json: absent, or the list of tasks it holds.
NoManifest == [exists |-> FALSE, tasks |-> << >>]
ManifestOf(l) == [exists |-> TRUE, tasks |-> l]

\* The parent_node the uploader is configured with (the remote root token).
parent_node == << >>

\* "00_Publish", the directory name discovery looks for.
PublishName == "00_Publish"

(* ----------------------------- local tree ----------------------------- *)

\* The local files a tree may hold, as paths under root_dir.  F1 and F2 lie
\* in two publish directories whose parents have the same name.
F1 == <<"02_Policy", "02_GPS", "A", "00_Publish", "x.docx">>
F2 == <<"02_Policy", "03_EPS", "A", "00_Publish", "x.docx">>
F3 == <<"01_BCG", "00_Publish", "y.docx">>
F4 == <<"03_Reg_WI", "01_archive", "B", "00_Publish", "z.docx">>

FileUniverse == {F1, F2, F3, F4}

Contents == 1..NumContents

\* hashlib.sha256 of a file's bytes, as hexdigest.
Sha256(c) == <<"sha256", c>>

Digests == {Sha256(c) : c \in Contents}

Last(s) == s[Len(s)]

IsPrefix(p, s) == Len(p) <= Len(s) /\ SubSeq(s, 1, Len(p)) = p

\* The directories of a tree: every proper prefix of a file's path.
DirsOf(t) == UNION {{SubSeq(f, 1, n) : n \in 1..(Len(f) - 1)} : f \in t}

\* A set of paths as a sequence, in the order the directory listing gives.
RECURSIVE SetToSeq(_)
SetToSeq(S) ==
    IF S = {} THEN << >>
    ELSE LET x == CHOOSE y \in S : TRUE IN <<x>> \o SetToSeq(S \ {x})

\* find_publish_recursive: the 00_Publish directories below folder; the
\* recursion does not descend into a 00_Publish directory.
find_publish_recursive(folder, t) ==
    {d \in DirsOf(t) :
        /\ IsPrefix(folder, d)
        /\ Len(d) > Len(folder)
        /\ Last(d) = PublishName
        /\ \A i \in (Len(folder) + 1)..(Len(d) - 1) : d[i] # PublishName}

find_publish_folders(t) ==
    LET bcg == IF <<"01_BCG", PublishName>> \in DirsOf(t)
               THEN << <<"01_BCG", PublishName>> >> ELSE << >>
        gps == SetToSeq(find_publish_recursive(<<"02_Policy", "02_GPS">>, t))
        eps == SetToSeq(find_publish_recursive(<<"02_Policy", "03_EPS">>, t))
        reg == SetToSeq(find_publish_recursive(
                   <<"03_Reg_WI", "02_in working Reg WI">>, t))
    IN bcg \o gps \o eps \o reg

\* The task record get_files_to_upload builds for file f of publish
\* directory folder.
TaskOf(folder, f) ==
    LET project_name == folder[Len(folder) - 1]
        feishu_dir == <<project_name, Last(folder)>>
    IN [local_path |-> f,
        feishu_dir |-> feishu_dir,
        file_name |-> Last(f),
        logical_path |-> Append(feishu_dir, Last(f))]

FilesIn(folder, t) == {f \in t : Len(f) = Len(folder) + 1 /\ IsPrefix(folder, f)}

RECURSIVE get_files_to_upload(_, _)
get_files_to_upload(publish_folders, t) ==
    IF publish_folders = << >> THEN << >>
    ELSE LET folder == Head(publish_folders)
             fs == SetToSeq(FilesIn(folder, t))
         IN [i \in 1..Len(fs) |-> TaskOf(folder, fs[i])]
            \o get_files_to_upload(Tail(publish_folders), t)

Discover(t) == get_files_to_upload(find_publish_folders(t), t)

(* ------------------------------- state -------------------------------- *)

VARIABLES
    \* What outlives a process run.
    tree,             \* the local files under root_dir
    content,          \* content[f]: the bytes of local file f
    histFile,         \* .upload_history.json
    manifest,         \* failed_uploads.json
    remote,           \* the folder tokens that exist in the remote store
    sent,             \* sent[k]: digest of the bytes the remote received last for key k
    now,              \* time.time()
    \* The front end's flags.
    pc, gui, dry_run, force, concurrent, retry,
    \* FeishuUploader's fields.
    history, folder_cache, token, token_expires_at, stopped,
    \* Locals of upload_all / upload_all_concurrent.
    files_to_upload, success_count, failed_count, failed_files,
    unique_dirs,      \* the directories pre-creation has not resolved yet
    rl_calls,         \* RateLimiter.calls
    \* Per task i: position and locals.
    tpc, cur_hash, rparent, rparts, result,
    handled,          \* the futures the as_completed loop has processed
    \* History variables of the model (the program holds none of these).
    runs,             \* process runs started
    edits,            \* edits of local files made
    faults,           \* remote calls and file reads that failed in this run
    discovered,       \* this run called find_publish_folders
    netIO,            \* the kinds of remote calls this run made
    transferred,      \* the tasks this run called upload_file for
    dirty,            \* a local file was edited while this run was in progress
    snap,             \* content when this run started
    prevSnap,         \* content when the previous run started
    prevOK,           \* the previous run was a full pass (see FullPass)
    admitted          \* the times at which the rate limiter admitted a call

persistVars == <<tree, content, histFile, manifest, remote, sent, now>>
flagVars == <<gui, dry_run, force, concurrent, retry>>
objVars == <<history, folder_cache, token, token_expires_at, stopped>>
runVars == <<files_to_upload, success_count, failed_count, failed_files,
             unique_dirs, rl_calls>>
taskVars == <<tpc, cur_hash, rparent, rparts, result, handled>>
ghostVars == <<runs, edits, faults, discovered, netIO, transferred,
               dirty, snap, prevSnap, prevOK, admitted>>

vars == <<persistVars, pc, flagVars, objVars, runVars, taskVars, ghostVars>>

(* ------------------------------ history ------------------------------- *)

\* dict.get(key): the stored digest, or None.
HGet(h, k) == IF k \in DOMAIN h THEN h[k] ELSE None

\* An assignment that replaces the whole dict by the one entry.
HSetAlone(h, k, v) == [x \in {k} |-> v]

\* dict[key] = value.
HSet(h, k, v) == [x \in (DOMAIN h) \cup {k} |-> IF x = k THEN v ELSE h[x]]

EmptyMap == [x \in {} |-> None]

\* The text of .upload_history.json as JSON tokens: the braces of the
\* object and one token per "key": "digest" member.
LBrace == <<"{">>
RBrace == <<"}">>
Member(k, v) == <<"member", k, v>>

\* The text "null": a complete JSON document that is not an object.
NullToken == <<"null">>

\* What json.load returns for it: a value that is not a dict.
NotADict == [x \in {NullToken} |-> <<"None">>]
IsDict(h) == h # NotADict

\* A file: whether it exists, whether it may be opened for reading, and the
\* tokens it holds.
NoFile == [exists |-> FALSE, readable |-> FALSE, text |-> << >>]
HistoryFile(text) == [exists |-> TRUE, readable |-> TRUE, text |-> text]

\* json.dump(self.history, f): the members of the mapping between braces.
RECURSIVE DumpMembers(_, _)
DumpMembers(h, K) ==
    IF K = {} THEN << >>
    ELSE LET k == CHOOSE x \in K : TRUE
         IN <<Member(k, h[k])>> \o DumpMembers(h, K \ {k})

Dump(h) == <<LBrace>> \o DumpMembers(h, DOMAIN h) \o <<RBrace>>

\* The text is a complete JSON object.
IsObject(text) ==
    /\ Len(text) >= 2
    /\ text[1] = LBrace
    /\ text[Len(text)] = RBrace
    /\ \A n \in 2..(Len(text) - 1) : text[n][1] = "member"

\* json.load accepts the text: a complete JSON value.
IsJson(text) == IsObject(text) \/ text = <<NullToken>>

\* json.load(f) of a complete document: the members of an object as a
\* dict, a later member of the same key replacing an earlier one; for any
\* other JSON value, that value.
RECURSIVE ParseMembers(_, _)
ParseMembers(text, n) ==
    IF n < 2 THEN EmptyMap
    ELSE LET h == ParseMembers(text, n - 1)
             k == text[n][2]
         IN [x \in (DOMAIN h) \cup {k} |-> IF x = k THEN text[n][3] ELSE h[x]]

Parse(text) ==
    IF IsObject(text) THEN ParseMembers(text, Len(text) - 1) ELSE NotADict

\* load_history: what json.load makes of the file; an empty dict when the
\* file does not exist, or when opening or parsing it raises (a warning is
\* printed).
load_history(file) ==
    IF file.exists /\ file.readable /\ IsJson(file.text)
    THEN Parse(file.text)
    ELSE EmptyMap

\* save_history: open(history_file, 'w') and json.dump of the whole
\* in-memory mapping, run to its end.
save_history(h) == HistoryFile(Dump(h))

calculate_hash(f, c) == Sha256(c[f])

(* ------------------------- failure manifest --------------------------- *)

\* str(Path) and Path(str): a path and its string form.
PathStr(p) == [str |-> p]
PathOf(s) == s.str

\* The front ends' serialisation of failed_files into failed_uploads.json.
Serialize(ff) ==
    [i \in 1..Len(ff) |-> [ff[i] EXCEPT !.local_path = PathStr(@)]]

\* The front ends' loading of the manifest for a retry run.
Deserialize(m) ==
    [i \in 1..Len(m) |-> [m[i] EXCEPT !.local_path = PathOf(@)]]

\* What the front end does with the manifest once the run has returned
\* (sc, fc, ff): main() prints only after a dry run; the GUI does not ask.
FrontEndManifest(isGui, dry, fc, ff, old) ==
    IF ~isGui /\ dry THEN old
    ELSE IF fc > 0 THEN ManifestOf(Serialize(ff))
    ELSE NoManifest

(* -------------------------- remote folders ---------------------------- *)

\* A folder token is the path of <<name, n>> pairs from the root: the n-th
\* folder called name under its parent.
Children(rem, parent, name) ==
    {t \in rem : /\ Len(t) = Len(parent) + 1
                 /\ IsPrefix(parent, t)
                 /\ Last(t)[1] = name}

\* The first folder of that name the listing shows.
FirstChild(rem, parent, name) ==
    CHOOSE t \in Children(rem, parent, name) :
        \A u \in Children(rem, parent, name) : Last(t)[2] <= Last(u)[2]

NewToken(rem, parent, name) ==
    Append(parent, <<name, Cardinality(Children(rem, parent, name)) + 1>>)

CacheHas(cache, parent, name) == <<parent, name>> \in DOMAIN cache

CachePut(cache, parent, name, t) ==
    [x \in (DOMAIN cache) \cup {<<parent, name>>} |->
        IF x = <<parent, name>> THEN t ELSE cache[x]]

\* ensure_path_exists, up to its next remote call: empty parts are skipped
\* and cached segments are followed.  The result is where the walk stands:
\* the current parent and the parts still to resolve.
RECURSIVE Walk(_, _, _)
Walk(cache, parent, parts) ==
    IF parts = << >> THEN [parent |-> parent, parts |-> << >>]
    ELSE IF Head(parts) = "" THEN Walk(cache, parent, Tail(parts))
    ELSE IF CacheHas(cache, parent, Head(parts))
         THEN Walk(cache, cache[<<parent, Head(parts)>>], Tail(parts))
    ELSE [parent |-> parent, parts |-> parts]

\* _get_or_create_single_folder after a cache miss at w: the list call.  A
\* folder of that name in the listing is cached and returned; a failed or
\* empty listing, or no such folder, leads on to the create call.
ListStep(cache, rem, w, listOK) ==
    LET name == Head(w.parts)
        tok == FirstChild(rem, w.parent, name)
    IN IF listOK /\ Children(rem, w.parent, name) # {}
       THEN [found |-> TRUE,
             cache |-> CachePut(cache, w.parent, name, tok),
             w |-> Walk(CachePut(cache, w.parent, name, tok), tok, Tail(w.parts))]
       ELSE [found |-> FALSE, cache |-> cache, w |-> w]

\* _get_or_create_single_folder: the create_folder call.  The new token is
\* cached and returned; on failure "" is returned and ensure_path_exists
\* raises.
CreateStep(cache, rem, w, createOK) ==
    LET name == Head(w.parts)
        tok == NewToken(rem, w.parent, name)
    IN IF createOK
       THEN [ok |-> TRUE,
             cache |-> CachePut(cache, w.parent, name, tok),
             rem |-> rem \cup {tok},
             w |-> Walk(CachePut(cache, w.parent, name, tok), tok, Tail(w.parts))]
       ELSE [ok |-> FALSE, cache |-> cache, rem |-> rem, w |-> w]

\* The remote calls of one walk that may fail: the list or the create call
\* with n parts still to resolve.
FaultPoints == {"list", "create"} \X (1..2)

\* The create call can succeed: it is not chosen to fail, and the model
\* holds fewer than MaxDup folders of that name.
CanCreate(rem, w, F) ==
    /\ <<"create", Len(w.parts)>> \notin F
    /\ Cardinality(Children(rem, w.parent, Head(w.parts))) < MaxDup

\* ensure_path_exists run from w to its end, the calls in F failing.
\* The result: whether it returned (and the token) or raised, the cache and
\* the remote store after it, the remote calls made and the failures met.
RECURSIVE Ensure(_, _, _, _, _, _)
Ensure(cache, rem, w, F, net, met) ==
    IF w.parts = << >>
    THEN [ok |-> TRUE, token |-> w.parent, cache |-> cache, rem |-> rem,
          net |-> net, met |-> met]
    ELSE LET n == Len(w.parts)
             l == ListStep(cache, rem, w, <<"list", n>> \notin F)
             c == CreateStep(cache, rem, w, CanCreate(rem, w, F))
             metL == met \cup ({<<"list", n>>} \cap F)
             metC == metL \cup ({<<"create", n>>} \cap F)
         IN IF l.found
            THEN Ensure(l.cache, rem, l.w, F, net \cup {"list"}, metL)
            ELSE IF c.ok
            THEN Ensure(c.cache, c.rem, c.w, F, net \cup {"list", "create"}, metC)
            ELSE [ok |-> FALSE, token |-> "", cache |-> cache, rem |-> rem,
                  net |-> net \cup {"list", "create"}, met |-> metC]

ensure_path_exists(cache, rem, relative_path, F) ==
    Ensure(cache, rem, Walk(cache, parent_node, relative_path), F, {}, {})

\* The folders a tree's tasks need, had earlier runs created them.
RECURSIVE TokenOfPath(_)
TokenOfPath(dir) ==
    IF dir = << >> THEN parent_node
    ELSE Append(TokenOfPath(SubSeq(dir, 1, Len(dir) - 1)), <<Last(dir), 1>>)

FoldersFor(tasks) ==
    UNION {{TokenOfPath(SubSeq(tasks[i].feishu_dir, 1, n)) :
               n \in 1..Len(tasks[i].feishu_dir)} : i \in 1..Len(tasks)}

(* ------------------------------- token -------------------------------- *)

\* The lifetime the token endpoint grants ("expire") and the margin
\* _refresh_token takes off it, in clock ticks.
Expire == 2
Margin == 1

(* ---------------------------- rate limiter ---------------------------- *)

\* RateLimiter(max_calls=5, period=1.0) of upload_all_concurrent; the
\* period is two clock ticks, so that a call can arrive half a period after
\* the oldest call of the window.
rl_max_calls == 5
rl_period == 2

\* self.calls = [c for c in self.calls if c > now - self.period]
Prune(calls, t) == SelectSeq(calls, LAMBDA c : c > t - rl_period)

\* A limiter that admits at once whatever the window holds.
RateLimitNoSleep(calls, t) ==
    [calls |-> Append(Prune(calls, t), t), at |-> t]

\* The wrapper's body under self.lock at time t: the window after the call
\* is admitted, and the time at which it is (after the sleep, if any).
RateLimit(calls, t) ==
    LET live == Prune(calls, t)
    IN IF Len(live) >= rl_max_calls
       THEN LET sleep_time == rl_period - (t - live[1])
                woke == IF sleep_time > 0 THEN t + sleep_time ELSE t
            IN [calls |-> Append(Tail(live), woke), at |-> woke]
       ELSE [calls |-> Append(live, t), at |-> t]

(* ------------------------------ upload_file --------------------------- *)

\* upload_file(local_path, file_name, target) at time t: _get_token
\* refreshes a stale token first; a failed refresh raises, which upload_file
\* catches and answers False without posting.  The post sends the bytes the
\* file holds now.
upload_file(task, t, refreshOK, postOK) ==
    LET stale == t >= token_expires_at
        fresh == stale /\ refreshOK
        posted == ~stale \/ refreshOK
        ok == posted /\ postOK
    IN [ok |-> ok,
        token |-> IF fresh THEN <<"tenant_access_token">> ELSE token,
        expires |-> IF fresh THEN t + Expire - Margin ELSE token_expires_at,
        net |-> (IF stale THEN {"token"} ELSE {}) \cup
                (IF posted THEN {"upload"} ELSE {}),
        met |-> (IF stale /\ ~refreshOK THEN 1 ELSE 0) +
                (IF posted /\ ~postOK THEN 1 ELSE 0),
        sent |-> IF ok THEN HSet(sent, task.logical_path,
                                 calculate_hash(task.local_path, content))
                 ELSE sent]

(* -------------------------------- Init -------------------------------- *)

Keys(tasks) == {tasks[i].logical_path : i \in 1..Len(tasks)}

\* The sub-lists of a list, in its order.
SubLists(tasks) ==
    {SelectSeq(tasks, LAMBDA t : t \in S) :
        S \in SUBSET {tasks[i] : i \in 1..Len(tasks)}}

\* The local trees of the model.
Trees ==
    {t \in {{F4}, {F1, F2}, {F1, F3}, {F1, F2, F3}} : Cardinality(t) <= MaxFiles}

\* Earlier runs have left a history of some keys (uploaded with content 1)
\* and the remote folders of those keys.  failed_uploads.json is absent or
\* holds a JSON list of tasks (written by an earlier run, perhaps edited).
Init ==
    /\ tree \in Trees
    /\ content \in [tree -> Contents]
    /\ histFile \in {save_history([k \in K |-> Sha256(1)]) :
                        K \in SUBSET Keys(Discover(tree))}
    /\ manifest \in {NoManifest} \cup
           {ManifestOf(Serialize(l)) : l \in SubLists(Discover(tree))}
    /\ remote = FoldersFor(SelectSeq(Discover(tree),
                    LAMBDA t : t.logical_path \in DOMAIN load_history(histFile)))
    /\ sent = load_history(histFile)
    /\ now = 0
    /\ pc = "idle"
    /\ gui = FALSE /\ dry_run = FALSE /\ force = FALSE
    /\ concurrent = FALSE /\ retry = FALSE
    /\ history = EmptyMap
    /\ folder_cache = EmptyMap
    /\ token = None
    /\ token_expires_at = 0
    /\ stopped = FALSE
    /\ files_to_upload = << >>
    /\ success_count = 0 /\ failed_count = 0 /\ failed_files = << >>
    /\ unique_dirs = {}
    /\ rl_calls = << >>
    /\ tpc = << >>
    /\ cur_hash = << >>
    /\ rparent = << >>
    /\ rparts = << >>
    /\ result = << >>
    /\ handled = {}
    /\ runs = 0 /\ edits = 0 /\ faults = 0
    /\ discovered = FALSE
    /\ netIO = {}
    /\ transferred = {}
    /\ dirty = FALSE
    /\ snap = content
    /\ prevSnap = content
    /\ prevOK = FALSE
    /\ admitted = << >>

(* ----------------------------- front end ------------------------------ *)

Tasks == 1..Len(files_to_upload)

Finished == {i \in Tasks : tpc[i] = "finished"}

\* The run that has just ended was a full pass: discovery, not a dry run,
\* not stopped, every task counted a success, no file edited meanwhile.
FullPass ==
    /\ pc = "done"
    /\ discovered /\ ~dry_run /\ ~stopped /\ ~dirty
    /\ failed_count = 0
    /\ success_count = Len(files_to_upload)

\* main() / run_uploader_task up to the first step of the upload loop:
\* the uploader is constructed (load_history), a retry run loads the
\* manifest, and upload_all / upload_all_concurrent runs to the start of
\* its loop or to an early return.
Launch(g, d, fo, co, re) ==
    /\ runs < MaxRuns
    /\  LET missing == re /\ ~manifest.exists
            files_override == IF re /\ manifest.exists
                              THEN Deserialize(manifest.tasks) ELSE << >>
            \* "if files_override:" is false for None and for the empty list
            use == files_override # << >>
            publish_folders == find_publish_folders(tree)
            found == IF use THEN files_override
                     ELSE get_files_to_upload(publish_folders, tree)
            \* upload_all's early returns
            nothing == ~co /\ ~use /\ (publish_folders = << >> \/ found = << >>)
            dry == d /\ (~co \/ ~use)
            next == IF missing THEN "exited"
                    ELSE IF nothing \/ dry THEN "return"
                    ELSE IF co THEN "precreate" ELSE "serial"
            files == IF missing THEN << >> ELSE found
        IN /\ gui' = g /\ dry_run' = d /\ force' = fo
           /\ concurrent' = co /\ retry' = re
           /\ pc' = next
           /\ history' = load_history(histFile)
           /\ files_to_upload' = files
           /\ success_count' = IF ~missing /\ ~nothing /\ dry THEN Len(found) ELSE 0
           /\ unique_dirs' = IF next = "precreate"
                             THEN {found[i].feishu_dir : i \in 1..Len(found)}
                             ELSE {}
           /\ tpc' = [i \in 1..Len(files) |-> "queued"]
           /\ cur_hash' = [i \in 1..Len(files) |-> None]
           /\ rparent' = [i \in 1..Len(files) |-> parent_node]
           /\ rparts' = [i \in 1..Len(files) |-> << >>]
           /\ result' = [i \in 1..Len(files) |-> "pending"]
           /\ discovered' = (~missing /\ ~use)
    /\ failed_count' = 0 /\ failed_files' = << >>
    /\ folder_cache' = EmptyMap
    /\ token' = None /\ token_expires_at' = 0
    /\ stopped' = FALSE
    /\ rl_calls' = << >>
    /\ handled' = {}
    /\ runs' = runs + 1
    /\ faults' = 0
    /\ netIO' = {} /\ transferred' = {}
    /\ dirty' = FALSE
    /\ snap' = content
    /\ prevSnap' = snap
    /\ prevOK' = FullPass
    /\ admitted' = << >>
    /\ UNCHANGED <<persistVars, edits>>

\* A first run of the program, through either front end, with any flags.
StartRun ==
    /\ pc = "idle"
    /\ \E g, d, fo, co, re \in BOOLEAN : Launch(g, d, fo, co, re)

\* The front end after upload_all / upload_all_concurrent has returned:
\* the manifest is written, deleted or left alone.
FrontEndFinish ==
    /\ pc = "return"
    /\ pc' = "done"
    /\ manifest' = FrontEndManifest(gui, dry_run, failed_count, failed_files,
                                    manifest)
    /\ UNCHANGED <<tree, content, histFile, remote, sent, now, flagVars,
                   objVars, runVars, taskVars, ghostVars>>

(* ------------------------------ one task ------------------------------ *)

\* A stop check that never sees the flag.
never_stopped == FALSE

is_stopped == stopped

\* A skip test that never skips.
NeverUpToDate(task, h) == FALSE

\* A skip test that ignores force.
UpToDateIgnoringForce(task, h) == HGet(history, task.logical_path) = h

\* The skip test of both loops.
UpToDate(task, h) == ~force /\ HGet(history, task.logical_path) = h

\* The failures the environment may still cause in this run.
FaultsLeft == MaxFaults - faults

(* ------------------------------ upload_all ---------------------------- *)

\* The loop of upload_all at task i: the stop check, calculate_hash and the
\* skip test.  A stop leaves the loop (save_history, return); an error while
\* reading the file leaves upload_all as an exception.
SerialBegin(i) ==
    /\ pc = "serial"
    /\ i \in Tasks /\ tpc[i] = "queued"
    /\ \A j \in 1..(i - 1) : tpc[j] = "finished"
    /\ IF is_stopped
       THEN /\ pc' = "return"
            /\ histFile' = save_history(history)
            /\ UNCHANGED <<success_count, tpc, cur_hash, result, faults>>
       ELSE \E readOK \in BOOLEAN :
            IF readOK
            THEN LET task == files_to_upload[i]
                     h == calculate_hash(task.local_path, content)
                 IN /\ cur_hash' = [cur_hash EXCEPT ![i] = h]
                    /\ IF UpToDate(task, h)
                       THEN /\ success_count' = success_count + 1
                            /\ tpc' = [tpc EXCEPT ![i] = "finished"]
                            /\ result' = [result EXCEPT ![i] = "skip"]
                       ELSE /\ tpc' = [tpc EXCEPT ![i] = "hashed"]
                            /\ UNCHANGED <<success_count, result>>
                    /\ UNCHANGED <<pc, histFile, faults>>
            ELSE /\ FaultsLeft > 0
                 /\ faults' = faults + 1
                 /\ pc' = "crashed"
                 /\ UNCHANGED <<histFile, success_count, tpc, cur_hash, result>>
    /\ UNCHANGED <<tree, content, manifest, remote, sent, now, flagVars,
                   objVars, files_to_upload, failed_count, failed_files,
                   unique_dirs, rl_calls, rparent, rparts, handled, runs, edits,
                   discovered, netIO, transferred, dirty, snap, prevSnap,
                   prevOK, admitted>>

\* The try block of upload_all for task i: ensure_path_exists, upload_file
\* and the count of the result.
SerialTransfer(i) ==
    /\ pc = "serial"
    /\ tpc[i] = "hashed"
    /\ \E F \in SUBSET FaultPoints, refreshOK, postOK \in BOOLEAN :
        LET task == files_to_upload[i]
            e == ensure_path_exists(folder_cache, remote, task.feishu_dir, F)
            r == upload_file(task, now, refreshOK, postOK)
        IN /\ e.met = F
           /\ folder_cache' = e.cache
           /\ remote' = e.rem
           /\ IF e.ok
              THEN /\ Cardinality(F) + r.met <= FaultsLeft
                   /\ faults' = faults + Cardinality(F) + r.met
                   /\ token' = r.token
                   /\ token_expires_at' = r.expires
                   /\ sent' = r.sent
                   /\ netIO' = netIO \cup e.net \cup r.net
                   /\ transferred' = transferred \cup {i}
              ELSE /\ Cardinality(F) <= FaultsLeft
                   /\ refreshOK /\ postOK
                   /\ faults' = faults + Cardinality(F)
                   /\ netIO' = netIO \cup e.net
                   /\ UNCHANGED <<token, token_expires_at, sent, transferred>>
           /\ IF e.ok /\ r.ok
              THEN /\ success_count' = success_count + 1
                   /\ history' = HSet(history, task.logical_path, cur_hash[i])
                   /\ result' = [result EXCEPT ![i] = "ok"]
                   /\ UNCHANGED <<failed_count, failed_files>>
              ELSE /\ failed_count' = failed_count + 1
                   /\ failed_files' = Append(failed_files, task)
                   /\ result' = [result EXCEPT ![i] = "fail"]
                   /\ UNCHANGED <<success_count, history>>
    /\ tpc' = [tpc EXCEPT ![i] = "finished"]
    /\ UNCHANGED <<tree, content, histFile, manifest, now, pc, flagVars,
                   stopped, files_to_upload, unique_dirs, rl_calls, cur_hash,
                   rparent, rparts, handled, runs, edits, discovered, dirty,
                   snap, prevSnap, prevOK, admitted>>

\* The loop of upload_all is through: save_history and return.
SerialEnd ==
    /\ pc = "serial"
    /\ Finished = Tasks
    /\ pc' = "return"
    /\ histFile' = save_history(history)
    /\ UNCHANGED <<tree, content, manifest, remote, sent, now, flagVars,
                   objVars, runVars, taskVars, ghostVars>>

(* ------------------------- upload_all_concurrent ---------------------- *)

\* One iteration of the pre-creation loop: the stop check, then
\* ensure_path_exists for one directory of unique_dirs, its exception
\* caught and logged.  A stop leaves the loop.
PreStep ==
    /\ pc = "precreate"
    /\ unique_dirs # {}
    /\ IF is_stopped
       THEN /\ unique_dirs' = {}
            /\ UNCHANGED <<remote, folder_cache, faults, netIO>>
       ELSE \E feishu_dir \in unique_dirs, F \in SUBSET FaultPoints :
            LET e == ensure_path_exists(folder_cache, remote, feishu_dir, F)
            IN /\ e.met = F
               /\ Cardinality(F) <= FaultsLeft
               /\ faults' = faults + Cardinality(F)
               /\ folder_cache' = e.cache
               /\ remote' = e.rem
               /\ netIO' = netIO \cup e.net
               /\ unique_dirs' = unique_dirs \ {feishu_dir}
    /\ UNCHANGED <<tree, content, histFile, manifest, sent, now, pc, flagVars,
                   history, token, token_expires_at, stopped, files_to_upload,
                   success_count, failed_count, failed_files, rl_calls,
                   taskVars, runs, edits, discovered, transferred, dirty, snap,
                   prevSnap, prevOK, admitted>>

\* A pool that is started while directories are still to be resolved.
PreEndEarly ==
    /\ pc = "precreate"
    /\ pc' = IF is_stopped THEN "return" ELSE "pool"
    /\ UNCHANGED <<persistVars, flagVars, objVars, runVars, taskVars,
                   ghostVars>>

\* After the pre-creation loop: a stopped run returns at once (without
\* save_history), any other submits every task to the pool.
PreEnd ==
    /\ pc = "precreate"
    /\ unique_dirs = {}
    /\ pc' = IF is_stopped THEN "return" ELSE "pool"
    /\ UNCHANGED <<persistVars, flagVars, objVars, runVars, taskVars,
                   ghostVars>>

\* The tasks a pool thread is executing.
Running == {i \in Tasks : tpc[i] \notin {"queued", "finished"}}

\* A pool that starts a task whatever the number it is executing.
PoolNeverFull == TRUE

\* ThreadPoolExecutor(max_workers): a queued task starts when one of the
\* max_workers threads is free.
PoolHasIdleThread == Cardinality(Running) < max_workers

\* upload_single_file for task i, up to its first remote call: the stop
\* check, calculate_hash, the skip test and the cached part of
\* ensure_path_exists.  A read error ends the future with an exception.
WorkerBegin(i) ==
    /\ pc \in {"pool", "shutdown"}
    /\ i \in Tasks /\ tpc[i] = "queued"
    /\ PoolHasIdleThread
    /\ IF is_stopped
       THEN /\ tpc' = [tpc EXCEPT ![i] = "finished"]
            /\ result' = [result EXCEPT ![i] = "stopped"]
            /\ UNCHANGED <<cur_hash, rparent, rparts, faults>>
       ELSE \E readOK \in BOOLEAN :
            IF readOK
            THEN LET task == files_to_upload[i]
                     h == calculate_hash(task.local_path, content)
                     w == Walk(folder_cache, parent_node, task.feishu_dir)
                 IN /\ cur_hash' = [cur_hash EXCEPT ![i] = h]
                    /\ IF UpToDate(task, h)
                       THEN /\ tpc' = [tpc EXCEPT ![i] = "finished"]
                            /\ result' = [result EXCEPT ![i] = "skip"]
                            /\ UNCHANGED <<rparent, rparts>>
                       ELSE /\ tpc' = [tpc EXCEPT ![i] =
                                IF w.parts = << >> THEN "upload" ELSE "resolve"]
                            /\ rparent' = [rparent EXCEPT ![i] = w.parent]
                            /\ rparts' = [rparts EXCEPT ![i] = w.parts]
                            /\ UNCHANGED result
                    /\ UNCHANGED faults
            ELSE /\ FaultsLeft > 0
                 /\ faults' = faults + 1
                 /\ tpc' = [tpc EXCEPT ![i] = "finished"]
                 /\ result' = [result EXCEPT ![i] = "raised"]
                 /\ UNCHANGED <<cur_hash, rparent, rparts>>
    /\ UNCHANGED <<persistVars, pc, flagVars, objVars, runVars, handled, runs,
                   edits, discovered, netIO, transferred, dirty, snap, prevSnap,
                   prevOK, admitted>>

\* A worker's list call for the segment its walk stands at.
ResolveList(i) ==
    /\ i \in Tasks /\ tpc[i] = "resolve"
    /\ \E listOK \in BOOLEAN :
        LET w == [parent |-> rparent[i], parts |-> rparts[i]]
            l == ListStep(folder_cache, remote, w, listOK)
        IN /\ listOK \/ (FaultsLeft > 0 /\ Children(remote, w.parent, Head(w.parts)) # {})
           /\ faults' = IF listOK THEN faults ELSE faults + 1
           /\ folder_cache' = l.cache
           /\ rparent' = [rparent EXCEPT ![i] = l.w.parent]
           /\ rparts' = [rparts EXCEPT ![i] = l.w.parts]
           /\ tpc' = [tpc EXCEPT ![i] =
                        IF ~l.found THEN "create"
                        ELSE IF l.w.parts = << >> THEN "upload" ELSE "resolve"]
    /\ netIO' = netIO \cup {"list"}
    /\ UNCHANGED <<persistVars, pc, flagVars, history, token, token_expires_at,
                   stopped, runVars, cur_hash, result, handled, runs, edits,
                   discovered, transferred, dirty, snap, prevSnap, prevOK, admitted>>

\* A worker's create call; its failure makes ensure_path_exists raise,
\* which upload_single_file answers with (False, message).
ResolveCreate(i) ==
    /\ i \in Tasks /\ tpc[i] = "create"
    /\ \E createOK \in BOOLEAN :
        LET w == [parent |-> rparent[i], parts |-> rparts[i]]
            can == CanCreate(remote, w, {})
            c == CreateStep(folder_cache, remote, w, createOK /\ can)
        IN /\ createOK \/ FaultsLeft > 0
           /\ faults' = IF createOK THEN faults ELSE faults + 1
           /\ folder_cache' = c.cache
           /\ remote' = c.rem
           /\ rparent' = [rparent EXCEPT ![i] = c.w.parent]
           /\ rparts' = [rparts EXCEPT ![i] = c.w.parts]
           /\ tpc' = [tpc EXCEPT ![i] =
                        IF ~c.ok THEN "finished"
                        ELSE IF c.w.parts = << >> THEN "upload" ELSE "resolve"]
           /\ result' = [result EXCEPT ![i] = IF c.ok THEN @ ELSE "fail"]
    /\ netIO' = netIO \cup {"create"}
    /\ UNCHANGED <<tree, content, histFile, manifest, sent, now, pc, flagVars,
                   history, token, token_expires_at, stopped, runVars, cur_hash,
                   handled, runs, edits, discovered, transferred, dirty, snap,
                   prevSnap, prevOK, admitted>>

\* A do_upload() whose limiter answers a call that finds the window full
\* with a failure, without calling upload_file.
WorkerUploadRejecting(i) ==
    /\ i \in Tasks /\ tpc[i] = "upload"
    /\ LET task == files_to_upload[i]
           full == Len(Prune(rl_calls, now)) >= rl_max_calls
           r == upload_file(task, now, TRUE, TRUE)
       IN IF full
          THEN /\ tpc' = [tpc EXCEPT ![i] = "finished"]
               /\ result' = [result EXCEPT ![i] = "fail"]
               /\ UNCHANGED <<rl_calls, admitted, token, token_expires_at,
                              sent, netIO, transferred>>
          ELSE /\ rl_calls' = Append(Prune(rl_calls, now), now)
               /\ admitted' = Append(admitted, now)
               /\ token' = r.token
               /\ token_expires_at' = r.expires
               /\ sent' = r.sent
               /\ netIO' = netIO \cup r.net
               /\ transferred' = transferred \cup {i}
               /\ tpc' = [tpc EXCEPT ![i] = "record"]
               /\ UNCHANGED result
    /\ UNCHANGED <<tree, content, histFile, manifest, remote, now, pc,
                   flagVars, history, folder_cache, stopped, files_to_upload,
                   success_count, failed_count, failed_files, unique_dirs,
                   cur_hash, rparent, rparts, handled, runs, edits, faults,
                   discovered, dirty, snap, prevSnap, prevOK>>

\* do_upload(): the rate limiter admits the call, then upload_file.
WorkerUpload(i) ==
    /\ i \in Tasks /\ tpc[i] = "upload"
    /\ \E refreshOK, postOK \in BOOLEAN :
        LET task == files_to_upload[i]
            rl == RateLimit(rl_calls, now)
            r == upload_file(task, rl.at, refreshOK, postOK)
        IN /\ r.met <= FaultsLeft
           /\ (r.net = {"token"} => postOK)
           /\ (~("token" \in r.net) => refreshOK)
           /\ faults' = faults + r.met
           /\ rl_calls' = rl.calls
           /\ admitted' = Append(admitted, rl.at)
           /\ now' = rl.at
           /\ token' = r.token
           /\ token_expires_at' = r.expires
           /\ sent' = r.sent
           /\ netIO' = netIO \cup r.net
           /\ tpc' = [tpc EXCEPT ![i] = IF r.ok THEN "record" ELSE "finished"]
           /\ result' = [result EXCEPT ![i] = IF r.ok THEN @ ELSE "fail"]
    /\ transferred' = transferred \cup {i}
    /\ UNCHANGED <<tree, content, histFile, manifest, remote, pc, flagVars,
                   history, folder_cache, stopped, files_to_upload,
                   success_count, failed_count, failed_files, unique_dirs,
                   cur_hash, rparent, rparts, handled, runs, edits, discovered,
                   dirty, snap, prevSnap, prevOK>>

\* with self.history_lock: self.history[logical_path] = current_hash
WorkerRecord(i) ==
    /\ i \in Tasks /\ tpc[i] = "record"
    /\ history' = HSet(history, files_to_upload[i].logical_path, cur_hash[i])
    /\ tpc' = [tpc EXCEPT ![i] = "finished"]
    /\ result' = [result EXCEPT ![i] = "ok"]
    /\ UNCHANGED <<persistVars, pc, flagVars, folder_cache, token,
                   token_expires_at, stopped, runVars, cur_hash, rparent,
                   rparts, handled, ghostVars>>

\* An as_completed loop that counts nothing for a future that raised.
AggregateDroppingRaised(i) ==
    /\ pc = "pool"
    /\ i \in Finished \ handled
    /\ IF is_stopped
       THEN /\ pc' = "shutdown"
            /\ UNCHANGED <<success_count, failed_count, failed_files, handled>>
       ELSE /\ handled' = handled \cup {i}
            /\ IF result[i] \in {"ok", "skip"}
               THEN /\ success_count' = success_count + 1
                    /\ UNCHANGED <<failed_count, failed_files>>
               ELSE IF result[i] = "raised"
               THEN UNCHANGED <<success_count, failed_count, failed_files>>
               ELSE /\ failed_count' = failed_count + 1
                    /\ failed_files' = Append(failed_files, files_to_upload[i])
                    /\ UNCHANGED success_count
            /\ UNCHANGED pc
    /\ UNCHANGED <<persistVars, flagVars, objVars, files_to_upload, unique_dirs,
                   rl_calls, tpc, cur_hash, rparent, rparts, result, ghostVars>>

\* One iteration of the as_completed loop, for a completed future: a stop
\* breaks out of the loop, otherwise the result is counted.
Aggregate(i) ==
    /\ pc = "pool"
    /\ i \in Finished \ handled
    /\ IF is_stopped
       THEN /\ pc' = "shutdown"
            /\ UNCHANGED <<success_count, failed_count, failed_files, handled>>
       ELSE /\ handled' = handled \cup {i}
            /\ IF result[i] \in {"ok", "skip"}
               THEN /\ success_count' = success_count + 1
                    /\ UNCHANGED <<failed_count, failed_files>>
               ELSE /\ failed_count' = failed_count + 1
                    /\ failed_files' = Append(failed_files, files_to_upload[i])
                    /\ UNCHANGED success_count
            /\ UNCHANGED pc
    /\ UNCHANGED <<persistVars, flagVars, objVars, files_to_upload, unique_dirs,
                   rl_calls, tpc, cur_hash, rparent, rparts, result, ghostVars>>

\* The loop is over and the executor's "with" block has waited for every
\* future: save_history and return.
ConcurrentEnd ==
    /\ \/ pc = "pool" /\ handled = Tasks
       \/ pc = "shutdown"
    /\ Finished = Tasks
    /\ pc' = "return"
    /\ histFile' = save_history(history)
    /\ UNCHANGED <<tree, content, manifest, remote, sent, now, flagVars,
                   objVars, runVars, taskVars, ghostVars>>

(* ----------------------------- environment ---------------------------- *)

InProgress == pc \in {"serial", "precreate", "pool", "shutdown"}

\* The tasks between their calculate_hash and the end of their upload_file.
InFlight == {i \in Tasks : tpc[i] \in {"hashed", "resolve", "create", "upload"}}

\* FeishuUploader.stop(), which only the GUI's stop button calls.
Stop ==
    /\ gui /\ InProgress /\ ~stopped
    /\ stopped' = TRUE
    /\ UNCHANGED <<persistVars, pc, flagVars, history, folder_cache, token,
                   token_expires_at, runVars, taskVars, ghostVars>>

\* Somebody rewrites a local file while a task for it is in flight.
EditFile(f, c) ==
    /\ edits < MaxEdits
    /\ f \in tree /\ c \in Contents /\ c # content[f]
    /\ \E i \in InFlight : files_to_upload[i].local_path = f
    /\ content' = [content EXCEPT ![f] = c]
    /\ edits' = edits + 1
    /\ dirty' = TRUE
    /\ UNCHANGED <<tree, histFile, manifest, remote, sent, now, pc, flagVars,
                   objVars, runVars, taskVars, runs, faults, discovered, netIO,
                   transferred, snap, prevSnap, prevOK, admitted>>

\* Time passes while a token is held and transfers are under way.
Tick ==
    /\ now < MaxTime
    /\ token # None
    /\ InFlight # {}
    /\ now' = now + 1
    /\ UNCHANGED <<tree, content, histFile, manifest, remote, sent, pc,
                   flagVars, objVars, runVars, taskVars, ghostVars>>

(* ------------------------------- one run ------------------------------ *)

\* The steps of the program.
RunStep ==
    \/ FrontEndFinish
    \/ \E i \in Tasks : SerialBegin(i)
    \/ \E i \in Tasks : SerialTransfer(i)
    \/ SerialEnd
    \/ PreStep
    \/ PreEnd
    \/ \E i \in Tasks : WorkerBegin(i)
    \/ \E i \in Tasks : ResolveList(i)
    \/ \E i \in Tasks : ResolveCreate(i)
    \/ \E i \in Tasks : WorkerUpload(i)
    \/ \E i \in Tasks : WorkerRecord(i)
    \/ \E i \in Tasks : Aggregate(i)
    \/ ConcurrentEnd

Next ==
    \/ StartRun
    \/ RunStep
    \/ Stop
    \/ \E f \in FileUniverse, c \in Contents : EditFile(f, c)
    \/ Tick

Spec == Init /\ [][Next]_vars

(* ------------------------------ two runs ------------------------------ *)

\* A run of the CLI over the whole tree: discovery, no dry run, no force.
PlainRun ==
    /\ pc \in {"idle", "done"}
    /\ \E co \in BOOLEAN : Launch(FALSE, FALSE, FALSE, co, FALSE)

\* Somebody rewrites a local file between two runs.
EditBetween(f, c) ==
    /\ pc = "done" /\ runs < MaxRuns
    /\ edits < MaxEdits
    /\ f \in tree /\ c \in Contents /\ c # content[f]
    /\ content' = [content EXCEPT ![f] = c]
    /\ edits' = edits + 1
    /\ UNCHANGED <<tree, histFile, manifest, remote, sent, now, pc, flagVars,
                   objVars, runVars, taskVars, runs, faults, discovered, netIO,
                   transferred, dirty, snap, prevSnap, prevOK, admitted>>

InitRerun == Init /\ manifest = NoManifest

NextRerun ==
    \/ PlainRun
    \/ RunStep
    \/ \E f \in FileUniverse, c \in Contents : EditBetween(f, c)

SpecRerun == InitRerun /\ [][NextRerun]_vars

(* ----------------------------- properties ----------------------------- *)

KeyOf(i) == files_to_upload[i].logical_path
FileOf(i) == files_to_upload[i].local_path

\* The tasks that went through their start-of-task stop check and ran.
Ran == {i \in Tasks : result[i] \in {"ok", "skip", "fail", "raised"}}

\* The tasks whose transfer failed.
Failed == {i \in Tasks : result[i] \in {"fail", "raised"}}

\* No two tasks of the run share a logical key.
UniqueKeys == \A i, j \in Tasks : KeyOf(i) = KeyOf(j) => i = j

\* C1: a second run (no force, no dry run) over the tree a full first run
\* has uploaded, the tree unchanged, calls upload_file for no task; when it
\* ends without a failed call, every task was skipped and counted a success.
C1_Idempotent ==
    (runs >= 2 /\ prevOK /\ snap = prevSnap) =>
        /\ transferred = {}
        /\ (pc = "done" /\ faults = 0) =>
               /\ \A i \in Tasks : result[i] = "skip"
               /\ success_count = Len(files_to_upload)
               /\ failed_count = 0

\* C2: a run that follows a full run, ended without a failed call, has
\* transferred exactly the discovered files whose content changed between the two
\* runs, and the stored fingerprint of each file it transferred
\* successfully is the digest of the file's new content.
C2_ExactlyChanged ==
    (runs >= 2 /\ prevOK /\ pc = "done" /\ faults = 0) =>
        /\ {FileOf(i) : i \in transferred} =
               {FileOf(i) : i \in {j \in Tasks : snap[FileOf(j)] # prevSnap[FileOf(j)]}}
        /\ \A i \in transferred :
               result[i] = "ok" => HGet(load_history(histFile), KeyOf(i)) = Sha256(content[FileOf(i)])

\* C3: whenever no worker stands between its transfer and its history
\* write, every value of the history mapping is the digest of the bytes the
\* remote store received last for that key (the keys of the run distinct).
C3_HistoryIsSent ==
    (UniqueKeys /\ \A i \in Tasks : tpc[i] # "record") =>
        \A k \in DOMAIN history : history[k] = sent[k]

\* The manifest lists exactly the failed tasks, each once.
ManifestIsFailed ==
    IF Failed = {} THEN ~manifest.exists
    ELSE /\ manifest.exists
         /\ Len(manifest.tasks) = Cardinality(Failed)
         /\ \A i \in Failed :
                \E n \in 1..Len(manifest.tasks) :
                    manifest.tasks[n] = Serialize(<<files_to_upload[i]>>)[1]

\* C4: the step in which a task's transfer fails leaves the history mapping
\* as it was, and when a run that is no dry run ends, the failure manifest
\* holds exactly one entry per failed task and none for a task that
\* succeeded.
C4_FailureRecorded ==
    [][/\ \A i \in Tasks :
              (result[i] \notin {"fail", "raised"} /\ result'[i] \in {"fail", "raised"})
                  => history' = history
       /\ (pc = "return" /\ pc' = "done" /\ ~dry_run) => ManifestIsFailed'
      ]_vars

\* C5: without force, a task whose stored digest equals its fresh digest is
\* skipped in the step that hashes it: no transfer, no remote call, the
\* history unchanged, not counted a failure; the serial loop counts it a
\* success at once and the as_completed loop counts it a success when it
\* handles it.  A run all of whose tasks are skipped returns success = the
\* number of tasks, failure = 0, with no transfer made.
C5_SkipRule ==
    [][/\ \A i \in Tasks :
              (/\ tpc[i] = "queued" /\ ~force
               /\ cur_hash'[i] # None
               /\ HGet(history, KeyOf(i)) = cur_hash'[i])
              => /\ tpc'[i] = "finished" /\ result'[i] = "skip"
                 /\ history' = history
                 /\ transferred' = transferred /\ netIO' = netIO
                 /\ failed_count' = failed_count
                 /\ ~concurrent => success_count' = success_count + 1
       /\ \A i \in Tasks :
              (result[i] = "skip" /\ i \in handled' \ handled)
              => /\ success_count' = success_count + 1
                 /\ failed_count' = failed_count
       /\ (/\ pc' = "return" /\ pc \in {"serial", "pool"} /\ ~stopped'
           /\ \A i \in Tasks : result'[i] = "skip")
          => /\ success_count' = Len(files_to_upload)
             /\ failed_count' = 0
             /\ transferred' = {}
      ]_vars

\* A serial run of one task, no force, has ended: the task was skipped,
\* success = 1, failure = 0, no transfer.
C5_Witness ==
    /\ pc = "done" /\ ~force /\ ~concurrent
    /\ Len(files_to_upload) = 1 /\ result[1] = "skip"
    /\ success_count = 1 /\ failed_count = 0 /\ transferred = {}

\* C6: with force no task is skipped by the digest rule: every task that is
\* hashed goes on to folder resolution and transfer, a run that ends
\* without a stop or a failed call has transferred every task, and each
\* successful transfer sets history[logicalKey] to the task's digest.
C6_Force ==
    [][force =>
        /\ \A i \in Tasks :
               (tpc[i] = "queued" /\ cur_hash'[i] # None)
                   => tpc'[i] \in {"hashed", "resolve", "upload"}
        /\ \A i \in Tasks : result'[i] # "skip"
        /\ \A i \in Tasks :
               (result[i] # "ok" /\ result'[i] = "ok")
                   => /\ i \in transferred'
                      /\ HGet(history', KeyOf(i)) = cur_hash[i]
        /\ (pc' = "return" /\ pc \in {"serial", "pool"} /\ ~stopped' /\ faults' = 0)
               => transferred' = Tasks
      ]_vars

\* A forced run has transferred a task whose digest the history file
\* already held, and the transfer succeeded.
C6_Witness ==
    /\ force /\ pc \in {"serial", "pool"}
    /\ \E i \in Tasks : /\ result[i] = "ok" /\ i \in transferred
                         /\ HGet(load_history(histFile), KeyOf(i)) = cur_hash[i]

\* C7: a dry run makes no remote call and leaves the in-memory and the
\* persisted history as they were loaded.
C7_DryRun ==
    dry_run => /\ netIO = {}
               /\ transferred = {}
               /\ history = load_history(histFile)

\* C8: a task whose start-of-task stop check comes after the stop flag is
\* set is never hashed, resolves no folder and transfers nothing.
C8_NoStartAfterStop ==
    [][\A i \in Tasks :
          (stopped /\ tpc[i] = "queued")
              => /\ tpc'[i] \in {"queued", "finished"}
                 /\ cur_hash'[i] = None
                 /\ i \notin transferred'
      ]_vars

\* A concurrent run was stopped after one task had transferred; another
\* task met the flag at its start and returned unhashed.
C8_Witness ==
    /\ stopped /\ concurrent
    /\ \E i, j \in Tasks : /\ result[i] = "stopped" /\ cur_hash[i] = None
                            /\ result[j] = "ok"

\* C9: when a stopped run has ended, every task that ran is counted in
\* success_count or failed_count (and failed_files), and the history file
\* holds the in-memory history.
C9_OutcomesRecorded ==
    (pc = "done" /\ stopped) =>
        /\ success_count + failed_count = Cardinality(Ran)
        /\ failed_count = Len(failed_files)
        /\ failed_count = Cardinality(Failed)
        /\ histFile = save_history(history)

C11_ManifestLifecycle ==
    [][(pc = "return" /\ pc' = "done" /\ ~dry_run) =>
          /\ manifest'.exists <=> (Failed # {})
          /\ manifest'.exists =>
                 {manifest'.tasks[n] : n \in 1..Len(manifest'.tasks)} =
                 {Serialize(<<files_to_upload[i]>>)[1] : i \in Failed}
          /\ (manifest.exists /\ ~manifest'.exists) =>
                 \A i \in Tasks : result[i] \in {"ok", "skip"}
      ]_vars


(* --------------------------- the worker pool -------------------------- *)

\* One publish folder with MaxCallers files.
PoolTree == {<<"01_BCG", PublishName, ToString(n)>> : n \in 1..MaxCallers}

\* Before a first run over PoolTree: no history, no manifest, an empty
\* remote store.
InitPool ==
    /\ tree = PoolTree
    /\ content = [f \in tree |-> 1]
    /\ histFile = save_history(EmptyMap)
    /\ manifest = NoManifest
    /\ remote = {}
    /\ sent = EmptyMap
    /\ now = 0
    /\ pc = "idle"
    /\ gui = FALSE /\ dry_run = FALSE /\ force = FALSE
    /\ concurrent = FALSE /\ retry = FALSE
    /\ history = EmptyMap
    /\ folder_cache = EmptyMap
    /\ token = None
    /\ token_expires_at = 0
    /\ stopped = FALSE
    /\ files_to_upload = << >>
    /\ success_count = 0 /\ failed_count = 0 /\ failed_files = << >>
    /\ unique_dirs = {}
    /\ rl_calls = << >>
    /\ tpc = << >>
    /\ cur_hash = << >>
    /\ rparent = << >>
    /\ rparts = << >>
    /\ result = << >>
    /\ handled = {}
    /\ runs = 0 /\ edits = 0 /\ faults = 0
    /\ discovered = FALSE
    /\ netIO = {}
    /\ transferred = {}
    /\ dirty = FALSE
    /\ snap = content
    /\ prevSnap = content
    /\ prevOK = FALSE
    /\ admitted = << >>

\* main() with --concurrent and no other flag.
StartPool ==
    /\ pc = "idle"
    /\ Launch(FALSE, FALSE, FALSE, TRUE, FALSE)

\* A concurrent run in which no remote call and no file read fails.
NextPool ==
    \/ StartPool
    \/ PreStep /\ faults' = faults
    \/ PreEnd
    \/ \E i \in Tasks : WorkerBegin(i) /\ faults' = faults
    \/ \E i \in Tasks : WorkerUpload(i) /\ faults' = faults
    \/ \E i \in Tasks : WorkerRecord(i)
    \/ \E i \in Tasks : Aggregate(i)
    \/ ConcurrentEnd
    \/ FrontEndFinish
    \/ Tick

SpecPool == InitPool /\ [][NextPool]_vars

\* The calls admitted in the period that ends with the n-th admitted call.
WindowCount(n) ==
    Cardinality({m \in 1..Len(admitted) :
                    /\ admitted[m] > admitted[n] - rl_period
                    /\ admitted[m] <= admitted[n]})

\* C12: no sliding window of one period (open at its start, as the
\* limiter prunes) holds more than max_calls admitted calls, and the
\* window the limiter records never holds more than max_calls timestamps.
C12_RateBound ==
    /\ \A n \in 1..Len(admitted) : WindowCount(n) <= rl_max_calls
    /\ Len(rl_calls) <= rl_max_calls

\* More than max_calls calls went through the limiter; the last one had to
\* wait and fills its window to max_calls exactly.
C12_Witness ==
    /\ Len(admitted) > rl_max_calls
    /\ WindowCount(Len(admitted)) = rl_max_calls
    /\ admitted[Len(admitted)] > now - rl_period
    /\ admitted[1] < admitted[Len(admitted)]


\* A call goes through the limiter's wrapper, no call of the run failing.
LimiterCall == \E i \in Tasks : WorkerUpload(i) /\ faults' = faults

\* The workers of a concurrent run in which no call fails, without the
\* main thread's as_completed loop.
NextLimiter ==
    \/ StartPool
    \/ PreStep /\ faults' = faults
    \/ PreEnd
    \/ \E i \in Tasks : WorkerBegin(i) /\ faults' = faults
    \/ LimiterCall
    \/ \E i \in Tasks : WorkerRecord(i)
    \/ Tick

\* A thread that waits for the limiter's lock gets it: the holder releases
\* it after a sleep of at most one period, and the callers are finitely
\* many.
SpecLimiter == InitPool /\ [][NextLimiter]_vars /\ WF_vars(LimiterCall)

\* C13: whenever calls wait at the limiter's wrapper, a state follows in
\* which none waits; and a call leaves the wrapper only by the step that
\* admits it and invokes upload_file for it, once: the limiter never ends a
\* call without the transfer, and a task never comes back to the wrapper.
C13_BlockingOnly ==
    /\ (\E i \in Tasks : tpc[i] = "upload") ~> (\A i \in Tasks : tpc[i] # "upload")
    /\ [][\A i \in Tasks :
             /\ (tpc[i] = "upload" /\ tpc'[i] # "upload")
                    => /\ i \notin transferred /\ i \in transferred'
                       /\ Len(admitted') = Len(admitted) + 1
                       /\ tpc'[i] = "record"
             /\ (i \in transferred /\ pc' # "idle") => tpc'[i] # "upload"
         ]_vars

\* Every task of a run of more than max_calls tasks went through the
\* wrapper and was transferred; the last call waited for its window.
C13_Witness ==
    /\ pc = "pool"
    /\ Len(files_to_upload) > rl_max_calls
    /\ transferred = Tasks
    /\ Len(admitted) = Len(files_to_upload)
    /\ admitted[Len(admitted)] >= rl_period
    /\ \A i \in Tasks : result[i] \in {"ok", "pending"}


\* A worker makes a remote folder call (list or create) for the segment its
\* walk stands at.
FolderCall(i) ==
    /\ tpc[i] \in {"resolve", "create"}
    /\ <<tpc'[i], rparts'[i]>> # <<tpc[i], rparts[i]>>

\* C14: within a run no remote folder call is made for a (parent, segment)
\* that folder_cache already holds: once a segment is resolved, every later
\* request for it is a cache hit.
C14_Deduplicating ==
    [][\A i \in Tasks :
          FolderCall(i) => ~CacheHas(folder_cache, rparent[i], Head(rparts[i]))
      ]_vars


\* C15: while the pre-creation loop of a concurrent run still has
\* directories to resolve, no task has been started: every task is still
\* queued, and the pool runs only once the loop is through.
C15_PreCreationFirst ==
    /\ pc = "precreate" => \A i \in Tasks : tpc[i] = "queued"
    /\ (\E i \in Tasks : tpc[i] # "queued") => unique_dirs = {}
    /\ pc \in {"pool", "shutdown"} => unique_dirs = {}

\* The pool of a concurrent run executes a task after a pre-creation that
\* resolved two segments and met no failure.
C15_Witness ==
    /\ concurrent /\ pc = "pool"
    /\ Running # {}
    /\ faults = 0
    /\ Cardinality(DOMAIN folder_cache) >= 2
    /\ "create" \in netIO


\* C16: in the pool phase of a concurrent run no worker stands at a remote
\* folder call: every segment a worker needs was cached by pre-creation, so
\* no worker lists or creates a folder.
C16_WorkersHitCache ==
    \A i \in Tasks : tpc[i] \notin {"resolve", "create"}


\* C17: a remote folder is created only where no folder of that name
\* exists under that parent; where one exists the store does not grow.
C17_CreateOnlyIfAbsent ==
    [][\A t \in remote' \ remote :
          Children(remote, SubSeq(t, 1, Len(t) - 1), Last(t)[1]) = {}
      ]_vars


\* C18: once the first credential exchange of a run has failed (the token
\* endpoint was called and the uploader holds no token), no further
\* transfer is attempted.
C18_AuthFailureFatal ==
    [][("token" \in netIO /\ token = None) => transferred' = transferred]_vars


\* C19: an error of one task never ends the run: upload_all and
\* upload_all_concurrent do not leave by an exception, and a run that was
\* not stopped and in which a task failed returns only after every task
\* was attempted, its history saved.
C19_TaskErrorsContained ==
    /\ pc # "crashed"
    /\ (/\ pc \in {"return", "done"}
        /\ ~stopped
        /\ \E i \in Tasks : result[i] \in {"fail", "raised"})
           => /\ Finished = Tasks
              /\ histFile = save_history(history)


\* C20: at every instant of a concurrent run at most max_workers tasks are
\* being executed, however many tasks are pending.
C20_PoolWidth == Cardinality(Running) <= max_workers

\* The pool is full while a task still waits in its queue.
C20_Witness ==
    /\ pc = "pool"
    /\ Cardinality(Running) = max_workers
    /\ \E i \in Tasks : tpc[i] = "queued"
    /\ Len(files_to_upload) > max_workers


\* The tasks the as_completed loop has counted as successes.
Succeeded == {i \in Tasks : result[i] \in {"ok", "skip"}}

\* C21: while the as_completed loop runs, whatever the order in which the
\* futures complete, the totals count exactly the futures handled so far:
\* successes and failures are those of the handled tasks, failed_files
\* holds the handled failures once each; and a run that was not stopped
\* returns with every task counted once, success_count + failed_count being
\* the number of tasks.
C21_OrderIndependent ==
    /\ [](pc \in {"pool", "shutdown"} =>
            /\ success_count = Cardinality(handled \cap Succeeded)
            /\ failed_count = Cardinality(handled \cap Failed)
            /\ failed_count = Len(failed_files)
            /\ \A i \in handled \cap Failed :
                   Cardinality({n \in 1..Len(failed_files) :
                                   failed_files[n] = files_to_upload[i]}) = 1)
    /\ [][(pc \in {"pool", "shutdown"} /\ pc' = "return" /\ ~stopped) =>
             /\ handled = Tasks
             /\ success_count' = Cardinality(Succeeded)
             /\ failed_count' = Cardinality(Failed)
             /\ success_count' + failed_count' = Len(files_to_upload)
             /\ failed_count' = Len(failed_files')
         ]_vars

\* The second task completed and was counted as a failure while the first
\* is still being executed.
C21_Witness ==
    /\ pc = "pool" /\ ~stopped
    /\ Len(files_to_upload) = 2
    /\ handled = {2}
    /\ tpc[1] \notin {"queued", "finished"}
    /\ failed_count = 1 /\ success_count = 0


(* --------------------------- the history file -------------------------- *)

\* The logical keys and the mappings a history can hold.
HistoryKeys == UNION {Keys(Discover(t)) : t \in Trees}
Histories == UNION {[K -> Digests] : K \in SUBSET HistoryKeys}

\* A process starts with the history file missing, unreadable, as an
\* earlier run's save_history left it, or holding a JSON document that is
\* not an object.
InitHistory ==
    /\ histFile \in {NoFile, HistoryFile(<<NullToken>>)} \cup
           {[save_history(h) EXCEPT !.readable = r] :
               h \in Histories, r \in BOOLEAN}
    /\ tree = {}
    /\ content = [f \in tree |-> 1]
    /\ manifest = NoManifest
    /\ remote = {}
    /\ sent = EmptyMap
    /\ now = 0
    /\ pc = "idle"
    /\ gui = FALSE /\ dry_run = FALSE /\ force = FALSE
    /\ concurrent = FALSE /\ retry = FALSE
    /\ history = EmptyMap
    /\ folder_cache = EmptyMap
    /\ token = None
    /\ token_expires_at = 0
    /\ stopped = FALSE
    /\ files_to_upload = << >>
    /\ success_count = 0 /\ failed_count = 0 /\ failed_files = << >>
    /\ unique_dirs = {}
    /\ rl_calls = << >>
    /\ tpc = << >>
    /\ cur_hash = << >>
    /\ rparent = << >>
    /\ rparts = << >>
    /\ result = << >>
    /\ handled = {}
    /\ runs = 0 /\ edits = 0 /\ faults = 0
    /\ discovered = FALSE
    /\ netIO = {}
    /\ transferred = {}
    /\ dirty = FALSE
    /\ snap = content
    /\ prevSnap = content
    /\ prevOK = FALSE
    /\ admitted = << >>

\* FeishuUploader.__init__ in a new process: self.history = load_history().
NewProcess ==
    /\ pc \in {"idle", "saved", "crashed"}
    /\ pc' = "loaded"
    /\ history' = load_history(histFile)
    /\ UNCHANGED <<persistVars, flagVars, folder_cache, token,
                   token_expires_at, stopped, runVars, taskVars, ghostVars>>

\* self.history[logical_path] = current_hash, after a transfer.
RecordUpload(k, v) ==
    /\ pc = "loaded"
    /\ IsDict(history)
    /\ HGet(history, k) # v
    /\ history' = HSet(history, k, v)
    /\ UNCHANGED <<persistVars, pc, flagVars, folder_cache, token,
                   token_expires_at, stopped, runVars, taskVars, ghostVars>>

\* save_history: open(self.history_file, 'w') creates the file or truncates
\* it to length zero; its permissions stay.
SaveOpen ==
    /\ pc = "loaded"
    /\ IsDict(history)
    /\ pc' = "saving"
    /\ histFile' = [exists |-> TRUE,
                    readable |-> histFile.exists => histFile.readable,
                    text |-> << >>]
    /\ UNCHANGED <<tree, content, manifest, remote, sent, now, flagVars,
                   objVars, runVars, taskVars, ghostVars>>

\* save_history: json.dump writes the next piece of the document.
SaveWrite ==
    /\ pc = "saving"
    /\ Len(histFile.text) < Len(Dump(history))
    /\ histFile' = [histFile EXCEPT
                       !.text = Append(@, Dump(history)[Len(@) + 1])]
    /\ UNCHANGED <<tree, content, manifest, remote, sent, now, pc, flagVars,
                   objVars, runVars, taskVars, ghostVars>>

\* save_history: the document is written and the file is closed.
SaveClose ==
    /\ pc = "saving"
    /\ histFile.text = Dump(history)
    /\ pc' = "saved"
    /\ UNCHANGED <<persistVars, flagVars, objVars, runVars, taskVars,
                   ghostVars>>

\* The process dies inside save_history (killed, power lost); the file
\* stays as the writes so far left it.
CrashInSave ==
    /\ pc = "saving"
    /\ pc' = "crashed"
    /\ UNCHANGED <<persistVars, flagVars, objVars, runVars, taskVars,
                   ghostVars>>

\* self.history.get(logical_path) on a value that is not a dict raises
\* AttributeError, outside every try block of upload_all.
UseHistory ==
    /\ pc = "loaded"
    /\ ~IsDict(history)
    /\ pc' = "crashed"
    /\ UNCHANGED <<persistVars, flagVars, objVars, runVars, taskVars,
                   ghostVars>>

NextHistory ==
    \/ NewProcess
    \/ UseHistory
    \/ \E k \in HistoryKeys, v \in Digests : RecordUpload(k, v)
    \/ SaveOpen
    \/ SaveWrite
    \/ SaveClose
    \/ CrashInSave

\* Processes that load the history, record uploads and save it, any of
\* them dying inside save_history.
SpecHistory == InitHistory /\ [][NextHistory]_vars

\* C22: whatever step of save_history a crash follows, the file is a
\* complete document holding either the mapping it held before the step or
\* the whole in-memory mapping: no step of save_history leaves the file
\* truncated or partial, or without a key it held.
C22_CrashSafeSave ==
    [][(pc' = "saving" /\ load_history(histFile) # EmptyMap) =>
          /\ IsJson(histFile'.text)
          /\ load_history(histFile') \in {load_history(histFile), history}
      ]_vars


(* ------------------------------ the locks ----------------------------- *)

\* The number of files, and so of pool threads at work, in the runs that
\* follow the two locks.
NumThreads == 3

LockTree == {<<"01_BCG", PublishName, ToString(n)>> : n \in 1..NumThreads}

InitLocks ==
    /\ tree = LockTree
    /\ content = [f \in tree |-> 1]
    /\ histFile = save_history(EmptyMap)
    /\ manifest = NoManifest
    /\ remote = {}
    /\ sent = EmptyMap
    /\ now = 0
    /\ pc = "idle"
    /\ gui = FALSE /\ dry_run = FALSE /\ force = FALSE
    /\ concurrent = FALSE /\ retry = FALSE
    /\ history = EmptyMap
    /\ folder_cache = EmptyMap
    /\ token = None
    /\ token_expires_at = 0
    /\ stopped = FALSE
    /\ files_to_upload = << >>
    /\ success_count = 0 /\ failed_count = 0 /\ failed_files = << >>
    /\ unique_dirs = {}
    /\ rl_calls = << >>
    /\ tpc = << >>
    /\ cur_hash = << >>
    /\ rparent = << >>
    /\ rparts = << >>
    /\ result = << >>
    /\ handled = {}
    /\ runs = 0 /\ edits = 0 /\ faults = 0
    /\ discovered = FALSE
    /\ netIO = {}
    /\ transferred = {}
    /\ dirty = FALSE
    /\ snap = content
    /\ prevSnap = content
    /\ prevOK = FALSE
    /\ admitted = << >>

\* The threads inside "with self.token_lock" and inside "with
\* self.history_lock".
TokenLockHolders == {i \in Tasks : tpc[i] \in {"token_locked", "exchange"}}
HistoryLockHolders == {i \in Tasks : tpc[i] = "history_locked"}

\* A token lock that is never taken.
TokenLockNeverTaken == TRUE

\* One lock used for both the token and the history.
OneLockIsFree == TokenLockHolders = {} /\ HistoryLockHolders = {}

\* A token lock that a thread whose call failed keeps for ever.
TokenLockKeptOnFailure ==
    {i \in Tasks : tpc[i] \in {"token_locked", "exchange"}
                   \/ result[i] = "fail"} = {}

\* threading.Lock: acquired only while no thread holds it.
TokenLockIsFree == TokenLockHolders = {}
HistoryLockIsFree == HistoryLockHolders = {}

\* do_upload(): the limiter admits the call and upload_file begins.
LimiterAdmit(i) ==
    /\ pc = "pool"
    /\ i \in Tasks /\ tpc[i] = "upload"
    /\ LET rl == RateLimit(rl_calls, now)
       IN /\ rl_calls' = rl.calls
          /\ admitted' = Append(admitted, rl.at)
          /\ now' = rl.at
    /\ transferred' = transferred \cup {i}
    /\ tpc' = [tpc EXCEPT ![i] = "get_token"]
    /\ UNCHANGED <<tree, content, histFile, manifest, remote, sent, pc,
                   flagVars, objVars, files_to_upload, success_count,
                   failed_count, failed_files, unique_dirs, cur_hash, rparent,
                   rparts, result, handled, runs, edits, faults, discovered,
                   netIO, dirty, snap, prevSnap, prevOK>>

\* _get_token: with self.token_lock
TokenAcquire(i) ==
    /\ i \in Tasks /\ tpc[i] = "get_token"
    /\ TokenLockIsFree
    /\ tpc' = [tpc EXCEPT ![i] = "token_locked"]
    /\ UNCHANGED <<persistVars, pc, flagVars, objVars, runVars, cur_hash,
                   rparent, rparts, result, handled, ghostVars>>

\* _get_token: if time.time() >= self.token_expires_at the exchange is
\* sent; otherwise the cached token is returned and the lock released.
TokenCheck(i) ==
    /\ i \in Tasks /\ tpc[i] = "token_locked"
    /\ IF now >= token_expires_at
       THEN /\ tpc' = [tpc EXCEPT ![i] = "exchange"]
            /\ netIO' = netIO \cup {"token"}
       ELSE /\ tpc' = [tpc EXCEPT ![i] = "post"]
            /\ UNCHANGED netIO
    /\ UNCHANGED <<persistVars, pc, flagVars, objVars, runVars, cur_hash,
                   rparent, rparts, result, handled, runs, edits, faults,
                   discovered, transferred, dirty, snap, prevSnap, prevOK,
                   admitted>>

\* A _refresh_token that stores the expiry before it tests the answer.
TokenExchangeStoringFirst(i) ==
    /\ i \in Tasks /\ tpc[i] = "exchange"
    /\ token_expires_at' = now + Expire - Margin
    /\ \E refreshOK \in BOOLEAN :
        IF refreshOK
        THEN /\ token' = <<"tenant_access_token">>
             /\ tpc' = [tpc EXCEPT ![i] = "post"]
             /\ UNCHANGED <<result, faults>>
        ELSE /\ FaultsLeft > 0
             /\ faults' = faults + 1
             /\ tpc' = [tpc EXCEPT ![i] = "finished"]
             /\ result' = [result EXCEPT ![i] = "fail"]
             /\ UNCHANGED token
    /\ UNCHANGED <<persistVars, pc, flagVars, history, folder_cache, stopped,
                   runVars, cur_hash, rparent, rparts, handled, runs, edits,
                   discovered, netIO, transferred, dirty, snap, prevSnap,
                   prevOK, admitted>>

\* _refresh_token: the answer of the token endpoint.  A success stores the
\* token and its expiry; a failure raises, which releases the lock and
\* makes upload_file answer False.
TokenExchange(i) ==
    /\ i \in Tasks /\ tpc[i] = "exchange"
    /\ \E refreshOK \in BOOLEAN :
        IF refreshOK
        THEN /\ token' = <<"tenant_access_token">>
             /\ token_expires_at' = now + Expire - Margin
             /\ tpc' = [tpc EXCEPT ![i] = "post"]
             /\ UNCHANGED <<result, faults>>
        ELSE /\ FaultsLeft > 0
             /\ faults' = faults + 1
             /\ tpc' = [tpc EXCEPT ![i] = "finished"]
             /\ result' = [result EXCEPT ![i] = "fail"]
             /\ UNCHANGED <<token, token_expires_at>>
    /\ UNCHANGED <<persistVars, pc, flagVars, history, folder_cache, stopped,
                   runVars, cur_hash, rparent, rparts, handled, runs, edits,
                   discovered, netIO, transferred, dirty, snap, prevSnap,
                   prevOK, admitted>>

\* upload_file: the post of the file and its answer.
PostFile(i) ==
    /\ i \in Tasks /\ tpc[i] = "post"
    /\ netIO' = netIO \cup {"upload"}
    /\ \E postOK \in BOOLEAN :
        IF postOK
        THEN /\ sent' = HSet(sent, files_to_upload[i].logical_path,
                             calculate_hash(files_to_upload[i].local_path,
                                            content))
             /\ tpc' = [tpc EXCEPT ![i] = "history_wait"]
             /\ UNCHANGED <<result, faults>>
        ELSE /\ FaultsLeft > 0
             /\ faults' = faults + 1
             /\ tpc' = [tpc EXCEPT ![i] = "finished"]
             /\ result' = [result EXCEPT ![i] = "fail"]
             /\ UNCHANGED sent
    /\ UNCHANGED <<tree, content, histFile, manifest, remote, now, pc,
                   flagVars, objVars, runVars, cur_hash, rparent, rparts,
                   handled, runs, edits, discovered, transferred, dirty, snap,
                   prevSnap, prevOK, admitted>>

\* upload_single_file: with self.history_lock
HistoryAcquire(i) ==
    /\ i \in Tasks /\ tpc[i] = "history_wait"
    /\ HistoryLockIsFree
    /\ tpc' = [tpc EXCEPT ![i] = "history_locked"]
    /\ UNCHANGED <<persistVars, pc, flagVars, objVars, runVars, cur_hash,
                   rparent, rparts, result, handled, ghostVars>>

\* self.history[logical_path] = current_hash, and the lock is released.
HistoryWrite(i) ==
    /\ i \in Tasks /\ tpc[i] = "history_locked"
    /\ history' = HSet(history, files_to_upload[i].logical_path, cur_hash[i])
    /\ tpc' = [tpc EXCEPT ![i] = "finished"]
    /\ result' = [result EXCEPT ![i] = "ok"]
    /\ UNCHANGED <<persistVars, pc, flagVars, folder_cache, token,
                   token_expires_at, stopped, runVars, cur_hash, rparent,
                   rparts, handled, ghostVars>>

\* Time passes while the pool is at work.
ClockTick ==
    /\ pc = "pool"
    /\ now < MaxTime + 1
    /\ \E i \in Tasks : tpc[i] # "finished"
    /\ now' = now + 1
    /\ UNCHANGED <<tree, content, histFile, manifest, remote, sent, pc,
                   flagVars, objVars, runVars, taskVars, ghostVars>>

\* A concurrent run followed lock by lock, from the start of the program to
\* the end of its workers.
NextLocks ==
    \/ StartPool
    \/ PreStep /\ faults' = faults
    \/ PreEnd
    \/ \E i \in Tasks : WorkerBegin(i) /\ faults' = faults
    \/ \E i \in Tasks : LimiterAdmit(i)
    \/ \E i \in Tasks : TokenAcquire(i)
    \/ \E i \in Tasks : TokenCheck(i)
    \/ \E i \in Tasks : TokenExchange(i)
    \/ \E i \in Tasks : PostFile(i)
    \/ \E i \in Tasks : HistoryAcquire(i)
    \/ \E i \in Tasks : HistoryWrite(i)
    \/ ClockTick

SpecLocks == InitLocks /\ [][NextLocks]_vars


\* C23: at most one thread is inside token_lock, so at most one credential
\* exchange is in flight; token and token_expires_at change only by a step
\* of the thread that holds the lock; the holder sends the exchange exactly
\* when no token is held or the time has reached token_expires_at (the
\* expiry less the margin), and otherwise leaves with the cached token and
\* without a call; and _get_token returns only a token that is not stale.
C23_TokenUnderLock ==
    /\ [](Cardinality(TokenLockHolders) <= 1)
    /\ [][(pc = "pool" /\ <<token, token_expires_at>>' # <<token, token_expires_at>>)
             => \E i \in TokenLockHolders : tpc'[i] # tpc[i]
         ]_vars
    /\ [][\A i \in Tasks :
             /\ (tpc[i] = "token_locked" /\ tpc'[i] # "token_locked") =>
                    IF token = None \/ now >= token_expires_at
                    THEN tpc'[i] = "exchange" /\ "token" \in netIO'
                    ELSE tpc'[i] = "post" /\ netIO' = netIO /\ token' = token
             /\ (pc = "pool" /\ tpc[i] # "post" /\ tpc'[i] = "post") =>
                    token' # None /\ now' < token_expires_at'
         ]_vars

\* The token has expired during the run: one thread is exchanging
\* credentials again while another waits for the lock and a third has
\* uploaded with the earlier token.
C23_Witness ==
    /\ pc = "pool"
    /\ token # None /\ now >= token_expires_at
    /\ \E i, j, k \in Tasks :
          /\ tpc[i] = "exchange"
          /\ tpc[j] = "get_token"
          /\ result[k] = "ok"


\* C24: in a run that discovered its tasks, no two distinct local files
\* have the same logical key.
C24_KeyIsIdentity ==
    discovered =>
        \A i, j \in Tasks : KeyOf(i) = KeyOf(j) => FileOf(i) = FileOf(j)


\* C25: no step of a run started with the dry-run flag changes the history
\* file or the failure manifest.
C25_DryRunLeavesDisk ==
    [][dry_run => (histFile' = histFile /\ manifest' = manifest)]_vars


\* C26: the construction of an uploader always gets a dict from
\* load_history: the empty dict when the history file is missing, cannot be
\* read or is not a JSON document, and exactly the mapping the previous
\* process saved when the file is one that save_history wrote to its end;
\* and no process fails on the history it loaded.
C26_LoadNeverFatal ==
    /\ [][(pc # "loaded" /\ pc' = "loaded") =>
             /\ IsDict(history')
             /\ (~histFile.exists \/ ~histFile.readable \/ ~IsJson(histFile.text))
                    => history' = EmptyMap
             /\ (pc = "saved" /\ histFile.readable) => history' = history
         ]_vars
    /\ [][pc = "loaded" => pc' # "crashed"]_vars


\* C27: a concurrent run in which every task is skipped by the history
\* match makes no remote folder call: pre-creation resolves only the
\* directories of tasks that are to be uploaded.
C27_PrecreatePendingOnly ==
    (/\ concurrent /\ pc \in {"pool", "shutdown", "return", "done"}
     /\ Tasks # {}
     /\ \A i \in Tasks : result[i] = "skip")
        => netIO \cap {"list", "create"} = {}


\* C28: a task that finds its directory not cached in the pool phase (the
\* pre-creation could not resolve it) is never uploaded: it stays in folder
\* resolution until it ends as a failure for which upload_file was not
\* called.
C28_UnresolvedDirFails ==
    [][\A i \in Tasks :
          (pc \in {"pool", "shutdown"} /\ tpc[i] \in {"resolve", "create"}) =>
              /\ tpc'[i] \in {"resolve", "create", "finished"}
              /\ tpc'[i] = "finished" =>
                     (result'[i] = "fail" /\ i \notin transferred')
      ]_vars


\* C29: within a process run an entry of folder_cache is never removed and
\* never changes, and an entry is added only with the identifier of a
\* folder the remote store holds.
C29_CacheStable ==
    [][pc # "idle" =>
          /\ \A x \in DOMAIN folder_cache :
                 x \in DOMAIN folder_cache' /\ folder_cache'[x] = folder_cache[x]
          /\ \A x \in (DOMAIN folder_cache') \ (DOMAIN folder_cache) :
                 folder_cache'[x] \in remote'
      ]_vars


\* C30: at most one worker is inside history_lock, and the in-memory
\* history changes only by the step of the worker inside it; that step does
\* nothing else (no token refresh, no limiter, no remote call); and the
\* lock is its own: a worker waiting for it gets it whenever no worker is
\* inside it, whoever holds token_lock.
C30_HistoryUnderLock ==
    /\ [](Cardinality(HistoryLockHolders) <= 1)
    /\ [](HistoryLockHolders \cap TokenLockHolders = {})
    /\ [](\A j \in Tasks :
             (tpc[j] = "history_wait" /\ HistoryLockHolders = {})
                 => ENABLED HistoryAcquire(j))
    /\ [][(pc = "pool" /\ history' # history) =>
             \E i \in HistoryLockHolders :
                 /\ tpc'[i] = "finished"
                 /\ history' = HSet(history, KeyOf(i), cur_hash[i])
                 /\ <<token, token_expires_at, rl_calls, netIO, now>>' =
                        <<token, token_expires_at, rl_calls, netIO, now>>
         ]_vars

\* One worker is inside history_lock while a second waits for it and a
\* third is exchanging credentials inside token_lock.
C30_Witness ==
    /\ pc = "pool"
    /\ \E i, j, k \in Tasks :
          /\ tpc[i] = "history_locked"
          /\ tpc[j] = "history_wait"
          /\ tpc[k] = "exchange"


\* C31: after a run that was not a dry run, every task of the run's list
\* that did not end as a success (uploaded or skipped) is in the failure
\* manifest, also when the run was stopped.
C31_UnfinishedInManifest ==
    (pc = "done" /\ ~dry_run) =>
        \A i \in Tasks :
            result[i] \notin {"ok", "skip"} =>
                /\ manifest.exists
                /\ \E n \in 1..Len(manifest.tasks) :
                       manifest.tasks[n] = Serialize(<<files_to_upload[i]>>)[1]


(* ----------------------- serial against concurrent --------------------- *)

\* The loop of upload_all from task i on, fed with the results the calls of
\* this run had: the digest read for each task (None: the read raised) and
\* whether its folder resolution and transfer succeeded.  acc holds the
\* in-memory history, the counts and the failed tasks so far.
RECURSIVE SerialLoop(_, _)
SerialLoop(i, acc) ==
    IF i > Len(files_to_upload) \/ acc.crashed THEN acc
    ELSE LET k == files_to_upload[i].logical_path
             h == cur_hash[i]
         IN IF h = None
            THEN [acc EXCEPT !.crashed = TRUE]
            ELSE IF ~force /\ HGet(acc.history, k) = h
            THEN SerialLoop(i + 1, [acc EXCEPT !.sc = @ + 1])
            ELSE IF result[i] = "fail"
            THEN SerialLoop(i + 1, [acc EXCEPT !.fc = @ + 1,
                                               !.ff = @ \cup {i}])
            ELSE SerialLoop(i + 1, [acc EXCEPT !.sc = @ + 1,
                                               !.history = HSet(@, k, h)])

\* What upload_all returns and persists for the task list, the flags, the
\* history file and the call results of this run.
SerialOutcome ==
    IF dry_run
    THEN [history |-> load_history(histFile), sc |-> Len(files_to_upload),
          fc |-> 0, ff |-> {}, crashed |-> FALSE, file |-> histFile]
    ELSE LET r == SerialLoop(1, [history |-> load_history(histFile),
                                 sc |-> 0, fc |-> 0, ff |-> {},
                                 crashed |-> FALSE])
         IN [history |-> r.history, sc |-> r.sc, fc |-> r.fc, ff |-> r.ff,
             crashed |-> r.crashed, file |-> save_history(r.history)]

\* C32: a concurrent run that was not stopped returns the counts and the
\* failed tasks, and leaves the history file, that upload_all returns and
\* leaves for the same task list, flags, history file and call results.
C32_SerialConcurrentSame ==
    [][(concurrent /\ pc \in {"pool", "shutdown"} /\ pc' = "return" /\ ~stopped)
          => /\ ~SerialOutcome.crashed
             /\ success_count' = SerialOutcome.sc
             /\ failed_count' = SerialOutcome.fc
             /\ {failed_files'[n] : n \in 1..Len(failed_files')} =
                    {files_to_upload[i] : i \in SerialOutcome.ff}
             /\ histFile' = SerialOutcome.file
      ]_vars


\* The step in which thread i's _refresh_token raises, and the one in which
\* it stores a new token.
RefreshRaises(i) == tpc[i] = "exchange" /\ tpc'[i] = "finished"
RefreshStores(i) == tpc[i] = "exchange" /\ tpc'[i] = "post"

\* C33: a _refresh_token that raises leaves token and token_expires_at as
\* they were and releases token_lock; the token stays due for a refresh
\* until an exchange succeeds, and a _get_token call that finds it due
\* sends the exchange again.
C33_FailedRefreshKeepsToken ==
    [][/\ \A i \in Tasks :
            RefreshRaises(i) =>
                /\ token' = token
                /\ token_expires_at' = token_expires_at
                /\ TokenLockIsFree'
                /\ now' >= token_expires_at'
       /\ (now >= token_expires_at /\ ~(\E i \in Tasks : RefreshStores(i)))
              => now' >= token_expires_at'
       /\ \A j \in Tasks :
            (tpc[j] = "token_locked" /\ tpc'[j] # "token_locked"
             /\ now >= token_expires_at) => tpc'[j] = "exchange"
      ]_vars

\* A refresh has failed with no token stored, and another thread's
\* _get_token is sending the exchange again.
C33_Witness ==
    /\ token = None
    /\ \E i \in Tasks : tpc[i] = "finished" /\ result[i] = "fail"
    /\ \E j \in Tasks : tpc[j] = "exchange"


(* ------------------- the concurrent run to its return ------------------ *)

\* The threads inside the rate limiter's "with self.lock".
LimiterLockHolders == {i \in Tasks : tpc[i] = "limiter_locked"}
LimiterLockIsFree == LimiterLockHolders = {}

\* do_upload(): the wrapper's "with self.lock".
LimiterAcquire(i) ==
    /\ i \in Tasks /\ tpc[i] = "upload"
    /\ LimiterLockIsFree
    /\ tpc' = [tpc EXCEPT ![i] = "limiter_locked"]
    /\ UNCHANGED <<persistVars, pc, flagVars, objVars, runVars, cur_hash,
                   rparent, rparts, result, handled, ghostVars>>

\* The wrapper's body: the window is pruned, a full window sleeps (the
\* sleep returns), the call is recorded, the lock is released and
\* upload_file begins.
LimiterRelease(i) ==
    /\ i \in Tasks /\ tpc[i] = "limiter_locked"
    /\ LET rl == RateLimit(rl_calls, now)
       IN /\ rl_calls' = rl.calls
          /\ admitted' = Append(admitted, rl.at)
          /\ now' = rl.at
    /\ transferred' = transferred \cup {i}
    /\ tpc' = [tpc EXCEPT ![i] = "get_token"]
    /\ UNCHANGED <<tree, content, histFile, manifest, remote, sent, pc,
                   flagVars, objVars, files_to_upload, success_count,
                   failed_count, failed_files, unique_dirs, cur_hash, rparent,
                   rparts, result, handled, runs, edits, faults, discovered,
                   netIO, dirty, snap, prevSnap, prevOK>>

\* The GUI starts a concurrent run over the whole tree.
StartGuiPool ==
    /\ pc = "idle"
    /\ Launch(TRUE, FALSE, FALSE, TRUE, FALSE)

\* The steps of upload_all_concurrent and of its worker threads, lock by
\* lock.
ConcurrentStep ==
    \/ PreStep
    \/ PreEnd
    \/ \E i \in Tasks : WorkerBegin(i)
    \/ \E i \in Tasks : ResolveList(i)
    \/ \E i \in Tasks : ResolveCreate(i)
    \/ \E i \in Tasks : LimiterAcquire(i)
    \/ \E i \in Tasks : LimiterRelease(i)
    \/ \E i \in Tasks : TokenAcquire(i)
    \/ \E i \in Tasks : TokenCheck(i)
    \/ \E i \in Tasks : TokenExchange(i)
    \/ \E i \in Tasks : PostFile(i)
    \/ \E i \in Tasks : HistoryAcquire(i)
    \/ \E i \in Tasks : HistoryWrite(i)
    \/ \E i \in Tasks : Aggregate(i)
    \/ ConcurrentEnd

NextConcurrent ==
    \/ StartGuiPool
    \/ ConcurrentStep
    \/ Stop

\* Every remote call and file read returns and the threads are scheduled:
\* while a step of the run is possible, a step is taken.
SpecConcurrent ==
    InitLocks /\ [][NextConcurrent]_vars /\ WF_vars(ConcurrentStep)

\* C34: once the tasks are submitted to the pool, the run reaches its
\* return with every task completed, the limiter lock, token_lock and
\* history_lock free and the history saved, with or without a stop signal.
C34_PoolTerminates ==
    (pc = "pool") ~>
        /\ pc = "return"
        /\ Finished = Tasks
        /\ LimiterLockIsFree /\ TokenLockIsFree /\ HistoryLockIsFree
        /\ histFile = save_history(history)

\* A stopped run has returned: one task was transferred and recorded, and
\* one found the stop signal when its thread started it.
C34_Witness ==
    /\ pc = "return" /\ stopped
    /\ Finished = Tasks
    /\ \E i \in Tasks : result[i] = "stopped"
    /\ \E i \in Tasks : result[i] = "ok"


(* ------------------------- the history's frame ------------------------- *)

\* The step in which task i is recorded as uploaded, and the one in which it
\* ends skipped, failed or unstarted.
BecomesOK(i) == result[i] # "ok" /\ result'[i] = "ok"
EndsOtherwise(i) ==
    result[i] = "pending" /\ result'[i] \in {"skip", "fail", "raised", "stopped"}

\* C35: within a run the history changes only in the step that records a
\* task whose transfer has just succeeded, and only by setting the task's
\* key to the digest computed for it: every other key keeps its value, no
\* key disappears, and a task that ends skipped or failed changes nothing.
C35_HistoryFrame ==
    [][pc \notin {"idle", "done", "exited"} =>
        /\ history' # history =>
              \E i \in Tasks :
                  /\ BecomesOK(i)
                  /\ i \in transferred'
                  /\ cur_hash'[i] = cur_hash[i] /\ cur_hash[i] # None
                  /\ KeyOf(i) \in DOMAIN history'
                  /\ history'[KeyOf(i)] = cur_hash[i]
                  /\ \A j \in Tasks \ {i} : result'[j] = result[j]
                  /\ \A k \in DOMAIN history' \ {KeyOf(i)} : k \in DOMAIN history
        /\ \A k \in DOMAIN history :
              /\ k \in DOMAIN history'
              /\ (\A i \in Tasks : BecomesOK(i) => k # KeyOf(i))
                     => history'[k] = history[k]
        /\ (\E i \in Tasks : EndsOtherwise(i)) => history' = history
        /\ \A i \in Tasks : BecomesOK(i) => HGet(history', KeyOf(i)) = cur_hash[i]
      ]_vars

\* A task has been recorded beside the entry of another key, which the run
\* found in the history file.
C35_Witness ==
    /\ pc \in {"serial", "pool"}
    /\ \E i \in Tasks :
          /\ result[i] = "ok"
          /\ HGet(history, KeyOf(i)) = cur_hash[i]
          /\ HGet(load_history(histFile), KeyOf(i)) # cur_hash[i]
          /\ \E k \in DOMAIN history : k # KeyOf(i)

=============================================================================
